---- MODULE Spec2Model ----
(***************************************************************************)
(* Model of the server manager: the Supervisor loop of server.rs, the      *)
(* Process Handle of child.rs, the Session Manager of rcon.rs and the      *)
(* Backup Scheduler of backup.rs.                                           *)
(*                                                                         *)
(* Time is measured in minutes.  The two `last_incident` instants are kept *)
(* as the value of `Instant::now() - last_incident`, which is all the code *)
(* ever reads of them; `last_incident = Instant::now()` sets it to 0.      *)
(***************************************************************************)
EXTENDS Integers, Sequences, FiniteSets, TLC

\* ---------------------------------------------------------------- constants

\* server.rs:81  Duration::from_secs(15 * 60), in minutes
SupQuietWindow == 15
\* server.rs:87  recent_incidents > 5
SupThreshold == 5
\* rcon.rs:49  Duration::from_secs(10 * 60), in minutes
RconQuietWindow == 10
\* rcon.rs:53  recent_incidents > 5
RconThreshold == 5
\* rcon.rs:65  first_attempt_attempts > 60
FirstContactRetries == 60
\* server.rs:52  channel::bounded(32)
CmdCapacity == 32
\* backup.rs:24  channel::bounded(1)
BackCapacity == 1
\* backup.rs:204  while sync_attempts < 5
MaxSyncAttempts == 5
\* mail.rs:117  if attempts > 5
MaxMailRetries == 5

\* ------------------------------------------------------------------- bounds

\* incident reports produced for the Incident Mailer
MaxReports == 4
\* incidents recorded by the history of the escalation specification
MaxHistory == 6
\* the server opens its console port before this many refusals, or never
MaxBootRefusals == 0

\* -------------------------------------------------------------------- state

VARIABLES
    \* Configuration (config.rs:94-105, 11-21)
    auto_restart, backups, paths_ok, silent, flush_on_save, rclone_path,
    \* ServerManager::start (server.rs:34-104)
    sup_pc, recent_incidents, since_last_incident, outcome, sup_break, sup_result,
    \* ChildKiller / emergency_shutdown (child.rs, server.rs:106-119)
    child, sd_pc, sigints, sigkills, shutdowns,
    \* RconManager::start / inner (rcon.rs:34-126)
    rcon_pc, rcon_recent_incidents, rcon_since_last_incident, first_attempt,
    first_attempt_attempts, pending_msg, cmd, err_cmd, rcon_log, contacted,
    \* channels (server.rs:52, backup.rs:24)
    cmd_chan, back_chan,
    \* the supervised server: whether its remote console port is open
    listening,
    \* BackupManager::start (backup.rs:19-228)
    backup_pc, sync_attempts, sync_err, backup_log,
    \* history of the gaps between recorded incidents (escalation specification)
    gaps,
    \* history of the Session Manager: the command whose forwarding failed and that
    \* has not been forwarded since, and the commands forwarded since the current
    \* backup iteration began
    owed, delivered,
    \* history of the Backup Scheduler: the steps of its current iteration
    steps,
    \* MailManager::start (mail.rs:43-132): the report queue, the batch, the
    \* failed sends of the current digest
    mail_pc, mail_chan, mail_requests, attempts,
    \* whether every sender of the report queue has been dropped
    mail_closed,
    \* the incident reports produced so far, the digests composed, and the subject
    \* and closing notice of each
    reported, digests, marks

cfg_vars == <<auto_restart, backups, paths_ok, silent, flush_on_save, rclone_path>>
sup_vars == <<sup_pc, recent_incidents, since_last_incident, outcome, sup_break,
              sup_result>>
child_vars == <<child, sd_pc, sigints, sigkills, shutdowns>>
rcon_vars == <<rcon_pc, rcon_recent_incidents, rcon_since_last_incident,
               first_attempt, first_attempt_attempts, pending_msg, cmd, err_cmd,
               rcon_log, contacted>>
chan_vars == <<cmd_chan, back_chan>>
backup_vars == <<backup_pc, sync_attempts, sync_err, backup_log>>
mail_vars == <<mail_pc, mail_chan, mail_requests, attempts, mail_closed, reported,
               digests, marks>>
server_vars == <<cfg_vars, sup_vars, child_vars, rcon_vars, chan_vars, backup_vars,
                 listening, gaps, owed, delivered, steps>>
vars == <<server_vars, mail_vars>>

None == "None"

Min(a, b) == IF a < b THEN a ELSE b

\* MinecraftCommand (rcon.rs:9-15); the two broadcasts of backup.rs:56 and 174
Commands ==
    {"BroadcastStart", "SaveOff", "SaveAll", "SaveAllFlush", "Await", "SaveOn",
     "BroadcastDone"}

\* ------------------------------------------------------------------- clock

\* Instant::now() - last_incident after `d` more minutes; every value above the
\* quiet window behaves alike, so the difference is kept up to window + 1.  The
\* Session Manager reads its clock only while it is polled, the Supervisor only
\* with auto-restart (server.rs:80-81).
Elapsed(since, d, window) == Min(since + d, window + 1)

Tick(d) ==
    /\ since_last_incident' =
          IF auto_restart
            THEN Elapsed(since_last_incident, d, SupQuietWindow)
            ELSE since_last_incident
    /\ rcon_since_last_incident' =
          IF sup_pc = "select"
            THEN Elapsed(rcon_since_last_incident, d, RconQuietWindow)
            ELSE rcon_since_last_incident
    /\ \/ since_last_incident' # since_last_incident
       \/ rcon_since_last_incident' # rcon_since_last_incident
    /\ UNCHANGED <<cfg_vars, mail_vars, sup_pc, recent_incidents, outcome, sup_break, sup_result,
                   child_vars, rcon_pc, rcon_recent_incidents, first_attempt,
                   first_attempt_attempts, pending_msg, cmd, err_cmd, rcon_log,
                   contacted, chan_vars, backup_vars, listening, gaps, owed, delivered, steps>>

\* --------------------------------------------------------------- supervisor

\* mutant: the quiet window ends one instant early
QuietExpiredAtWindow(since, window) == since >= window

\* server.rs:81  (Instant::now() - last_incident) > Duration::from_secs(15 * 60)
QuietExpired(since, window) == since > window

\* server.rs:81-85  reset after a quiet window, then count the incident
RecordIncident(count, since, window) ==
    (IF QuietExpired(since, window) THEN 0 ELSE count) + 1

\* mutant: Stop as soon as the count reaches the threshold
EscalateAtThreshold(count, threshold) == count >= threshold

\* server.rs:87  recent_incidents > 5
Escalate(count, threshold) == count > threshold

\* mutant: the tasks are spawned detached and keep running after the select
PolledDetached == rcon_pc \notin {"idle", "done"} /\ backup_pc \notin {"idle", "done"}

\* the futures of select! are polled only while the Supervisor awaits the select,
\* and the select returns in the poll in which one of them completes
Polled == sup_pc = "select" /\ rcon_pc # "done" /\ backup_pc # "done"

\* a call of ServerManager::emergency_shutdown begins (server.rs:106)
BeginShutdown ==
    /\ sd_pc' = "int"
    /\ shutdowns' = shutdowns + 1
    /\ UNCHANGED <<child, sigints, sigkills>>

\* mutant: the loop is never left
DropHandleContinues(break) ==
    /\ sup_pc' = "drop"
    /\ sup_break' = FALSE
    /\ BeginShutdown

\* the end of the loop body releases serv_handle: ChildKiller::drop (child.rs:9-13)
DropHandle(break) ==
    /\ sup_pc' = "drop"
    /\ sup_break' = break
    /\ BeginShutdown

\* server.rs:39-58  spawn the process, wrap it, create the channel and the tasks
SupSpawn(ok) ==
    /\ sup_pc = "spawn"
    /\ IF ok
         THEN /\ sup_pc' = "select"
              /\ child' = "running"
              /\ sd_pc' = "idle"
              /\ sigints' = 0
              /\ sigkills' = 0
              /\ shutdowns' = 0
              /\ outcome' = "none"
              /\ cmd_chan' = <<>>
              /\ back_chan' = 0
              /\ rcon_pc' = "connect"
              /\ rcon_recent_incidents' = 0
              /\ rcon_since_last_incident' = 0
              /\ first_attempt' = TRUE
              /\ first_attempt_attempts' = 0
              /\ pending_msg' = None
              /\ cmd' = None
              /\ err_cmd' = None
              /\ rcon_log' = None
              /\ contacted' = FALSE
              /\ backup_pc' = "start"
              /\ sync_attempts' = 0
              /\ sync_err' = FALSE
              /\ backup_log' = None
              /\ owed' = None
              /\ delivered' = <<>>
              /\ steps' = <<>>
              /\ UNCHANGED sup_result
         ELSE /\ sup_pc' = "done"
              /\ sup_result' = "Err"
              /\ UNCHANGED <<child_vars, outcome, rcon_vars, chan_vars, backup_vars,
                             owed, delivered, steps>>
    /\ listening' = FALSE
    /\ UNCHANGED <<cfg_vars, mail_vars, recent_incidents, since_last_incident, sup_break, gaps>>

\* server.rs:61-68  the process exit wins the select
SelectExit ==
    /\ sup_pc = "select"
    /\ child = "exited"
    /\ outcome' = "exit"
    /\ sup_pc' = "exited"
    /\ UNCHANGED <<cfg_vars, mail_vars, recent_incidents, since_last_incident, sup_break,
                   sup_result, child_vars, rcon_vars, chan_vars, backup_vars, listening, gaps, owed, delivered, steps>>

\* server.rs:69-72  the Session Manager's return wins the select
SelectRcon ==
    /\ sup_pc = "select"
    /\ rcon_pc = "done"
    /\ outcome' = "rcon"
    /\ sup_pc' = "emergency"
    /\ BeginShutdown
    /\ UNCHANGED <<cfg_vars, mail_vars, recent_incidents, since_last_incident, sup_break,
                   sup_result, rcon_vars, chan_vars, backup_vars, listening, gaps, owed, delivered, steps>>

\* server.rs:73-76  the Backup Scheduler's return wins the select
SelectBackup ==
    /\ sup_pc = "select"
    /\ backup_pc = "done"
    /\ outcome' = "backup"
    /\ sup_pc' = "emergency"
    /\ BeginShutdown
    /\ UNCHANGED <<cfg_vars, mail_vars, recent_incidents, since_last_incident, sup_break,
                   sup_result, rcon_vars, chan_vars, backup_vars, listening, gaps, owed, delivered, steps>>

\* server.rs:79-100  restart or stop
SupExited ==
    /\ sup_pc = "exited"
    /\ IF auto_restart
         THEN LET n == RecordIncident(recent_incidents, since_last_incident,
                                      SupQuietWindow)
              IN /\ recent_incidents' = n
                 /\ IF Escalate(n, SupThreshold)
                      THEN /\ DropHandle(TRUE)
                           /\ UNCHANGED since_last_incident
                      ELSE /\ since_last_incident' = 0
                           /\ sup_pc' = "sleep"
                           /\ UNCHANGED <<sup_break, child_vars>>
         ELSE /\ DropHandle(TRUE)
              /\ UNCHANGED <<recent_incidents, since_last_incident>>
    /\ UNCHANGED <<cfg_vars, mail_vars, outcome, sup_result, rcon_vars, chan_vars, backup_vars,
                   listening, owed, delivered, steps>>

\* server.rs:95  the 10 second sleep ends, and with it the loop body
SupSleep ==
    /\ sup_pc = "sleep"
    /\ DropHandle(FALSE)
    /\ UNCHANGED <<cfg_vars, mail_vars, recent_incidents, since_last_incident, outcome,
                   sup_result, rcon_vars, chan_vars, backup_vars, listening, gaps, owed, delivered, steps>>

\* ----------------------------------------------------------- process handle

InShutdown == sup_pc \in {"emergency", "drop"}

\* emergency_shutdown returns to its caller: the select arm (server.rs:71, 75)
\* or ChildKiller::drop, after which the loop repeats or start returns Ok
ShutdownReturn ==
    /\ sd_pc' = "idle"
    /\ IF sup_pc = "emergency"
         THEN sup_pc' = "exited" /\ UNCHANGED sup_result
         ELSE IF sup_break
                THEN sup_pc' = "done" /\ sup_result' = "Ok"
                ELSE sup_pc' = "spawn" /\ UNCHANGED sup_result

\* server.rs:109  signal::kill(pid, Signal::SIGINT).ok()
SdInterrupt ==
    /\ InShutdown
    /\ sd_pc = "int"
    /\ sigints' = sigints + 1
    /\ sd_pc' = "wait"
    /\ UNCHANGED <<cfg_vars, mail_vars, sup_vars, child, sigkills, shutdowns, rcon_vars,
                   chan_vars, backup_vars, listening, gaps, owed, delivered, steps>>

\* mutant: the interrupt is not waited for
SdExitedUnwaited ==
    /\ InShutdown
    /\ sd_pc = "wait"
    /\ ShutdownReturn
    /\ UNCHANGED <<cfg_vars, mail_vars, recent_incidents, since_last_incident, outcome,
                   sup_break, child, sigints, sigkills, shutdowns, rcon_vars,
                   chan_vars, backup_vars, listening, gaps, owed, delivered, steps>>

\* server.rs:110-114  status() completes within the 20 seconds
SdExited ==
    /\ InShutdown
    /\ sd_pc = "wait"
    /\ child = "exited"
    /\ ShutdownReturn
    /\ UNCHANGED <<cfg_vars, mail_vars, recent_incidents, since_last_incident, outcome,
                   sup_break, child, sigints, sigkills, shutdowns, rcon_vars,
                   chan_vars, backup_vars, listening, gaps, owed, delivered, steps>>

\* mutant: the timeout is noticed but no SIGKILL is sent
SdTimeoutNoKill ==
    /\ InShutdown
    /\ sd_pc = "wait"
    /\ child = "running"
    /\ sd_pc' = "killwait"
    /\ UNCHANGED <<cfg_vars, mail_vars, sup_vars, child, sigints, sigkills, shutdowns, rcon_vars,
                   chan_vars, backup_vars, listening, gaps, owed, delivered, steps>>

\* mutant: SIGKILL follows the interrupt whether or not the process exited
SdTimeoutBlind ==
    /\ InShutdown
    /\ sd_pc = "wait"
    /\ sigkills' = sigkills + 1
    /\ sd_pc' = "killwait"
    /\ UNCHANGED <<cfg_vars, mail_vars, sup_vars, child, sigints, shutdowns, rcon_vars,
                   chan_vars, backup_vars, listening, gaps, owed, delivered, steps>>

\* server.rs:110-116  the 20 seconds pass first: SIGKILL
SdTimeout ==
    /\ InShutdown
    /\ sd_pc = "wait"
    /\ child = "running"
    /\ sigkills' = sigkills + 1
    /\ sd_pc' = "killwait"
    /\ UNCHANGED <<cfg_vars, mail_vars, sup_vars, child, sigints, shutdowns, rcon_vars,
                   chan_vars, backup_vars, listening, gaps, owed, delivered, steps>>

\* mutant: emergency_shutdown returns right after SIGKILL
SdKilledUnwaited ==
    /\ InShutdown
    /\ sd_pc = "killwait"
    /\ ShutdownReturn
    /\ UNCHANGED <<cfg_vars, mail_vars, recent_incidents, since_last_incident, outcome,
                   sup_break, child, sigints, sigkills, shutdowns, rcon_vars,
                   chan_vars, backup_vars, listening, gaps, owed, delivered, steps>>

\* server.rs:117  serv_handle.status().await.ok()
SdKilled ==
    /\ InShutdown
    /\ sd_pc = "killwait"
    /\ child = "exited"
    /\ ShutdownReturn
    /\ UNCHANGED <<cfg_vars, mail_vars, recent_incidents, since_last_incident, outcome,
                   sup_break, child, sigints, sigkills, shutdowns, rcon_vars,
                   chan_vars, backup_vars, listening, gaps, owed, delivered, steps>>

\* the server opens its remote console port (the port connect addresses,
\* rcon.rs:86-90), while it boots or never
ServerListens ==
    /\ child = "running"
    /\ ~listening
    /\ first_attempt_attempts <= MaxBootRefusals
    /\ listening' = TRUE
    /\ UNCHANGED <<cfg_vars, mail_vars, sup_vars, child_vars, rcon_vars, chan_vars, backup_vars,
                   gaps, owed, delivered, steps>>

\* the supervised process exits, by itself or on a signal; its port closes
ProcExit ==
    /\ child = "running"
    /\ child' = "exited"
    /\ listening' = FALSE
    /\ UNCHANGED <<cfg_vars, mail_vars, sup_vars, sd_pc, sigints, sigkills, shutdowns,
                   rcon_vars, chan_vars, backup_vars, gaps, owed, delivered, steps>>

\* ---------------------------------------------------------- session manager

\* rcon.rs:44-61  inner returned Err(err), err.cmd = c
RconFail(c) ==
    LET n == IF QuietExpired(rcon_since_last_incident, RconQuietWindow)
               THEN 0 ELSE rcon_recent_incidents
    IN /\ first_attempt' = FALSE
       /\ rcon_recent_incidents' = n
       /\ IF Escalate(n, RconThreshold)
            THEN /\ rcon_pc' = "done"
                 /\ rcon_log' = "too_many_incidents"
                 /\ UNCHANGED <<rcon_since_last_incident, err_cmd>>
            ELSE /\ rcon_since_last_incident' = 0
                 /\ rcon_pc' = "sleep1"
                 /\ err_cmd' = c
                 /\ UNCHANGED rcon_log
       /\ UNCHANGED <<first_attempt_attempts, pending_msg>>

\* a tolerated refusal handled as the incident branch handles a failure
RconToleratedAsIncident == RconFail(None)

\* a first-contact limit that is reached one retry early
RconToleratedEarly ==
    LET n == first_attempt_attempts + 1
    IN /\ first_attempt_attempts' = n
       /\ IF n >= FirstContactRetries
            THEN rcon_pc' = "done" /\ rcon_log' = "no_first_contact"
            ELSE rcon_pc' = "sleep10" /\ UNCHANGED rcon_log
       /\ UNCHANGED <<first_attempt, rcon_recent_incidents,
                      rcon_since_last_incident, pending_msg, err_cmd>>

\* rcon.rs:62-72  inner returned Ok(()): a tolerated refusal
RconTolerated ==
    LET n == first_attempt_attempts + 1
    IN /\ first_attempt_attempts' = n
       /\ IF n > FirstContactRetries
            THEN rcon_pc' = "done" /\ rcon_log' = "no_first_contact"
            ELSE rcon_pc' = "sleep10" /\ UNCHANGED rcon_log
       /\ UNCHANGED <<first_attempt, rcon_recent_incidents,
                      rcon_since_last_incident, pending_msg, err_cmd>>

\* what a connection attempt can return: a closed port refuses it; an open port
\* accepts it or fails it (rcon::Error::Auth), and once the Session Manager has
\* left its first-contact phase a connection to an open port can also break
ConnectResults ==
    IF ~listening THEN {"Io"}
    ELSE IF first_attempt THEN {"Ok", "Other"}
    ELSE {"Ok", "Io", "Other"}

\* rcon.rs:86-104  connect: "Ok", an rcon::Error::Io ("Io"), or another error
RconConnect(res) ==
    /\ Polled
    /\ rcon_pc = "connect"
    /\ res \in ConnectResults
    /\ CASE res = "Ok" ->
              /\ contacted' = TRUE
              /\ rcon_pc' = IF pending_msg # None THEN "pending" ELSE "recv"
              /\ UNCHANGED <<rcon_recent_incidents, rcon_since_last_incident,
                             first_attempt, first_attempt_attempts, pending_msg,
                             err_cmd, rcon_log>>
         [] res = "Io" ->
              /\ IF first_attempt THEN RconTolerated ELSE RconFail(None)
              /\ UNCHANGED contacted
         [] OTHER ->
              /\ RconFail(None)
              /\ UNCHANGED contacted
    /\ UNCHANGED <<cfg_vars, mail_vars, sup_vars, child_vars, cmd, chan_vars, backup_vars,
                   listening, gaps, owed, delivered, steps>>

\* rcon.rs:128-148  send_message: the handshake sends on the embedded channel and
\* never fails, any other command is forwarded by conn.cmd and succeeds iff `ok`
SendMessage(c, ok, next) ==
    IF c = "Await"
      THEN /\ back_chan < BackCapacity
           /\ back_chan' = back_chan + 1
           /\ rcon_pc' = next
           /\ cmd' = None
           /\ UNCHANGED <<rcon_recent_incidents, rcon_since_last_incident,
                          first_attempt, first_attempt_attempts, pending_msg,
                          err_cmd, rcon_log>>
      ELSE /\ UNCHANGED back_chan
           /\ cmd' = None
           /\ IF ok
                THEN /\ rcon_pc' = next
                     /\ UNCHANGED <<rcon_recent_incidents, rcon_since_last_incident,
                                    first_attempt, first_attempt_attempts,
                                    pending_msg, err_cmd, rcon_log>>
                ELSE RconFail(c)

\* send_message returned Ok: the handshake always does, conn.cmd iff `ok`
Forwarded(c, ok) == c = "Await" \/ ok

\* rcon.rs:106-115  the remembered command is sent first
RconPending(ok) ==
    /\ Polled
    /\ rcon_pc = "pending"
    /\ SendMessage(pending_msg, ok, "recv")
    /\ owed' = IF Forwarded(pending_msg, ok) THEN None ELSE pending_msg
    /\ delivered' = IF Forwarded(pending_msg, ok)
                      THEN Append(delivered, pending_msg) ELSE delivered
    /\ UNCHANGED <<cfg_vars, mail_vars, sup_vars, child_vars, contacted, cmd_chan, backup_vars,
                   listening, gaps, steps>>

\* mutant: the newest command of the queue is taken first
RconRecvNewest ==
    /\ Polled
    /\ rcon_pc = "recv"
    /\ IF cmd_chan # <<>>
         THEN /\ cmd' = cmd_chan[Len(cmd_chan)]
              /\ cmd_chan' = SubSeq(cmd_chan, 1, Len(cmd_chan) - 1)
              /\ rcon_pc' = "send"
              /\ UNCHANGED <<rcon_recent_incidents, rcon_since_last_incident,
                             first_attempt, first_attempt_attempts, pending_msg,
                             err_cmd, rcon_log>>
         ELSE /\ backup_pc = "done"
              /\ RconFail(None)
              /\ UNCHANGED <<cmd, cmd_chan>>
    /\ UNCHANGED <<cfg_vars, mail_vars, sup_vars, child_vars, contacted, back_chan, backup_vars,
                   listening, gaps, owed, delivered, steps>>

\* rcon.rs:118  chan.recv().await?
RconRecv ==
    /\ Polled
    /\ rcon_pc = "recv"
    /\ IF cmd_chan # <<>>
         THEN /\ cmd' = Head(cmd_chan)
              /\ cmd_chan' = Tail(cmd_chan)
              /\ rcon_pc' = "send"
              /\ UNCHANGED <<rcon_recent_incidents, rcon_since_last_incident,
                             first_attempt, first_attempt_attempts, pending_msg,
                             err_cmd, rcon_log>>
         ELSE /\ backup_pc = "done"
              /\ RconFail(None)
              /\ UNCHANGED <<cmd, cmd_chan>>
    /\ UNCHANGED <<cfg_vars, mail_vars, sup_vars, child_vars, contacted, back_chan, backup_vars,
                   listening, gaps, owed, delivered, steps>>

\* rcon.rs:119-124  forward the received command
RconSend(ok) ==
    /\ Polled
    /\ rcon_pc = "send"
    /\ SendMessage(cmd, ok, "recv")
    /\ owed' = IF Forwarded(cmd, ok) THEN owed ELSE cmd
    /\ delivered' = IF Forwarded(cmd, ok) THEN Append(delivered, cmd) ELSE delivered
    /\ UNCHANGED <<cfg_vars, mail_vars, sup_vars, child_vars, contacted, cmd_chan, backup_vars,
                   listening, gaps, steps>>

\* rcon.rs:58-61  the 1 second sleep ends; pending_msg = err.cmd
RconSleep1 ==
    /\ Polled
    /\ rcon_pc = "sleep1"
    /\ pending_msg' = err_cmd
    /\ err_cmd' = None
    /\ rcon_pc' = "connect"
    /\ UNCHANGED <<cfg_vars, mail_vars, sup_vars, child_vars, rcon_recent_incidents,
                   rcon_since_last_incident, first_attempt, first_attempt_attempts,
                   cmd, rcon_log, contacted, chan_vars, backup_vars, listening, gaps, owed, delivered, steps>>

\* rcon.rs:69-71  the 10 second sleep ends; pending_msg = None
RconSleep10 ==
    /\ Polled
    /\ rcon_pc = "sleep10"
    /\ pending_msg' = None
    /\ rcon_pc' = "connect"
    /\ UNCHANGED <<cfg_vars, mail_vars, sup_vars, child_vars, rcon_recent_incidents,
                   rcon_since_last_incident, first_attempt, first_attempt_attempts,
                   cmd, err_cmd, rcon_log, contacted, chan_vars, backup_vars, listening, gaps, owed, delivered, steps>>

\* --------------------------------------------------------- backup scheduler

\* mutant: a failed step logs and starts over instead of returning
BackupFailsRestarts(log) ==
    /\ backup_pc' = "interval"
    /\ backup_log' = log

\* the scheduler returns its log: a terminal failure
BackupFails(log) ==
    /\ backup_pc' = "done"
    /\ backup_log' = log

\* mutant: a command queue that holds one command
EnqueueNarrow(c, next, log) ==
    IF Len(cmd_chan) < BackCapacity
      THEN /\ cmd_chan' = Append(cmd_chan, c)
           /\ backup_pc' = next
           /\ steps' = Append(steps, c)
           /\ UNCHANGED backup_log
      ELSE /\ BackupFails(log)
           /\ UNCHANGED <<cmd_chan, steps>>

\* cmd_chan.send(c).timeout(10 s): the command is queued at once unless the queue
\* is full, and then the timeout ends the scheduler (backup.rs:55-69, 72-86, ...)
Enqueue(c, next, log) ==
    IF Len(cmd_chan) < CmdCapacity
      THEN /\ cmd_chan' = Append(cmd_chan, c)
           /\ backup_pc' = next
           /\ steps' = Append(steps, c)
           /\ UNCHANGED backup_log
      ELSE /\ BackupFails(log)
           /\ UNCHANGED <<cmd_chan, steps>>

\* mutant: without a configuration the scheduler returns instead of pending
BackupStartReturns ==
    /\ Polled
    /\ backup_pc = "start"
    /\ IF ~backups
         THEN BackupFails("no_configuration")
         ELSE IF ~paths_ok
                THEN BackupFails("path_conversion")
                ELSE backup_pc' = "interval" /\ UNCHANGED backup_log
    /\ UNCHANGED <<cfg_vars, mail_vars, sup_vars, child_vars, rcon_vars, chan_vars,
                   sync_attempts, sync_err, listening, gaps, owed, delivered, steps>>

\* backup.rs:23-47  no configuration: pending forever; the paths are converted
BackupStart ==
    /\ Polled
    /\ backup_pc = "start"
    /\ IF ~backups
         THEN backup_pc' = "pending" /\ UNCHANGED backup_log
         ELSE IF ~paths_ok
                THEN BackupFails("path_conversion")
                ELSE backup_pc' = "interval" /\ UNCHANGED backup_log
    /\ UNCHANGED <<cfg_vars, mail_vars, sup_vars, child_vars, rcon_vars, chan_vars,
                   sync_attempts, sync_err, listening, gaps, owed, delivered, steps>>

\* backup.rs:49-54  the interval elapsed: an iteration starts
BackupInterval ==
    /\ Polled
    /\ backup_pc = "interval"
    /\ backup_pc' = IF silent THEN "save_off" ELSE "broadcast_start"
    /\ delivered' = <<>>
    /\ steps' = <<>>
    /\ UNCHANGED <<cfg_vars, mail_vars, sup_vars, child_vars, rcon_vars, chan_vars,
                   sync_attempts, sync_err, backup_log, listening, gaps, owed>>

\* backup.rs:54-70
BackupBroadcastStart ==
    /\ Polled
    /\ backup_pc = "broadcast_start"
    /\ Enqueue("BroadcastStart", "save_off", "timeout_broadcast_start")
    /\ UNCHANGED <<cfg_vars, mail_vars, sup_vars, child_vars, rcon_vars, back_chan,
                   sync_attempts, sync_err, listening, gaps, owed, delivered>>

\* backup.rs:72-86
BackupSaveOff ==
    /\ Polled
    /\ backup_pc = "save_off"
    /\ Enqueue("SaveOff", "save_all", "timeout_save_off")
    /\ UNCHANGED <<cfg_vars, mail_vars, sup_vars, child_vars, rcon_vars, back_chan,
                   sync_attempts, sync_err, listening, gaps, owed, delivered>>

\* backup.rs:88-100
BackupSaveAll ==
    /\ Polled
    /\ backup_pc = "save_all"
    /\ Enqueue(IF flush_on_save THEN "SaveAllFlush" ELSE "SaveAll", "send_await",
               "timeout_save_all")
    /\ UNCHANGED <<cfg_vars, mail_vars, sup_vars, child_vars, rcon_vars, back_chan,
                   sync_attempts, sync_err, listening, gaps, owed, delivered>>

\* backup.rs:102-116
BackupSendAwait ==
    /\ Polled
    /\ backup_pc = "send_await"
    /\ Enqueue("Await", "recv_ack", "timeout_send_await")
    /\ UNCHANGED <<cfg_vars, mail_vars, sup_vars, child_vars, rcon_vars, back_chan,
                   sync_attempts, sync_err, listening, gaps, owed, delivered>>

\* mutant: the grace sleep is taken with flush-on-save instead of without
BackupAckGraceInverted ==
    /\ Polled
    /\ backup_pc = "recv_ack"
    /\ back_chan > 0
    /\ back_chan' = back_chan - 1
    /\ backup_pc' = IF flush_on_save THEN "grace" ELSE "duplicity"
    /\ steps' = Append(steps, "Ack")
    /\ UNCHANGED <<cfg_vars, mail_vars, sup_vars, child_vars, rcon_vars, cmd_chan,
                   sync_attempts, sync_err, backup_log, listening, gaps, owed,
                   delivered>>

\* mutant: the acknowledgment is polled, not awaited
BackupAckUnsignalled ==
    /\ Polled
    /\ backup_pc = "recv_ack"
    /\ back_chan' = IF back_chan > 0 THEN back_chan - 1 ELSE 0
    /\ backup_pc' = IF flush_on_save THEN "duplicity" ELSE "grace"
    /\ steps' = Append(steps, "Ack")
    /\ UNCHANGED <<cfg_vars, mail_vars, sup_vars, child_vars, rcon_vars, cmd_chan,
                   sync_attempts, sync_err, backup_log, listening, gaps, owed, delivered>>

\* mutant: the backup tool is started as soon as the acknowledgment arrives
BackupAckNoGrace ==
    /\ Polled
    /\ backup_pc = "recv_ack"
    /\ back_chan > 0
    /\ back_chan' = back_chan - 1
    /\ backup_pc' = "duplicity"
    /\ steps' = Append(steps, "Ack")
    /\ UNCHANGED <<cfg_vars, mail_vars, sup_vars, child_vars, rcon_vars, cmd_chan,
                   sync_attempts, sync_err, backup_log, listening, gaps, owed, delivered>>

\* backup.rs:118-130  the acknowledgment arrives within the 2 minutes
BackupAck ==
    /\ Polled
    /\ backup_pc = "recv_ack"
    /\ back_chan > 0
    /\ back_chan' = back_chan - 1
    /\ backup_pc' = IF flush_on_save THEN "duplicity" ELSE "grace"
    /\ steps' = Append(steps, "Ack")
    /\ UNCHANGED <<cfg_vars, mail_vars, sup_vars, child_vars, rcon_vars, cmd_chan,
                   sync_attempts, sync_err, backup_log, listening, gaps, owed, delivered>>

\* mutant: the result of the timed wait is ignored
BackupAckTimeoutProceeds ==
    /\ Polled
    /\ backup_pc = "recv_ack"
    /\ back_chan = 0
    /\ backup_pc' = IF flush_on_save THEN "duplicity" ELSE "grace"
    /\ UNCHANGED <<cfg_vars, mail_vars, sup_vars, child_vars, rcon_vars, chan_vars,
                   sync_attempts, sync_err, backup_log, listening, gaps, owed,
                   delivered, steps>>

\* mutant: the wait for the acknowledgment has no timeout
BackupAckTimeoutNever ==
    /\ Polled
    /\ backup_pc = "recv_ack"
    /\ back_chan < 0
    /\ BackupFails("timeout_ack")
    /\ UNCHANGED <<cfg_vars, mail_vars, sup_vars, child_vars, rcon_vars, chan_vars,
                   sync_attempts, sync_err, listening, gaps, owed, delivered, steps>>

\* backup.rs:118-121  the 2 minutes pass first
BackupAckTimeout ==
    /\ Polled
    /\ backup_pc = "recv_ack"
    /\ back_chan = 0
    /\ BackupFails("timeout_ack")
    /\ UNCHANGED <<cfg_vars, mail_vars, sup_vars, child_vars, rcon_vars, chan_vars,
                   sync_attempts, sync_err, listening, gaps, owed, delivered, steps>>

\* backup.rs:128-130  the 2 minute grace sleep ends
BackupGrace ==
    /\ Polled
    /\ backup_pc = "grace"
    /\ backup_pc' = "duplicity"
    /\ steps' = Append(steps, "Grace")
    /\ UNCHANGED <<cfg_vars, mail_vars, sup_vars, child_vars, rcon_vars, chan_vars,
                   sync_attempts, sync_err, backup_log, listening, gaps, owed, delivered>>

\* mutant: after the backup tool the scheduler goes straight to the completion
\* steps
BackupDuplicitySkipsSaveOn(ok) ==
    /\ Polled
    /\ backup_pc = "duplicity"
    /\ IF ok
         THEN /\ backup_pc' = IF silent THEN "cleanup" ELSE "broadcast_done"
              /\ UNCHANGED backup_log
         ELSE BackupFails("duplicity_backup")
    /\ steps' = Append(steps, "Duplicity")
    /\ UNCHANGED <<cfg_vars, mail_vars, sup_vars, child_vars, rcon_vars, chan_vars,
                   sync_attempts, sync_err, listening, gaps, owed, delivered>>

\* backup.rs:132-143  Duplicity::backup
BackupDuplicity(ok) ==
    /\ Polled
    /\ backup_pc = "duplicity"
    /\ IF ok
         THEN backup_pc' = "save_on" /\ UNCHANGED backup_log
         ELSE BackupFails("duplicity_backup")
    /\ steps' = Append(steps, "Duplicity")
    /\ UNCHANGED <<cfg_vars, mail_vars, sup_vars, child_vars, rcon_vars, chan_vars,
                   sync_attempts, sync_err, listening, gaps, owed, delivered>>

\* backup.rs:145-161
BackupSaveOn ==
    /\ Polled
    /\ backup_pc = "save_on"
    /\ Enqueue("SaveOn", IF silent THEN "cleanup" ELSE "broadcast_done",
               "timeout_save_on")
    /\ UNCHANGED <<cfg_vars, mail_vars, sup_vars, child_vars, rcon_vars, back_chan,
                   sync_attempts, sync_err, listening, gaps, owed, delivered>>

\* backup.rs:163-188  the completion broadcast, with or without the folder size
BackupBroadcastDone ==
    /\ Polled
    /\ backup_pc = "broadcast_done"
    /\ Enqueue("BroadcastDone", "cleanup", "timeout_broadcast_done")
    /\ UNCHANGED <<cfg_vars, mail_vars, sup_vars, child_vars, rcon_vars, back_chan,
                   sync_attempts, sync_err, listening, gaps, owed, delivered>>

\* backup.rs:190-203  Duplicity::cleanup_old
BackupCleanup(ok) ==
    /\ Polled
    /\ backup_pc = "cleanup"
    /\ IF ok
         THEN /\ backup_pc' = IF rclone_path THEN "sync" ELSE "interval"
              /\ UNCHANGED backup_log
         ELSE BackupFails("duplicity_cleanup")
    /\ sync_attempts' = 0
    /\ sync_err' = FALSE
    /\ steps' = Append(steps, "Cleanup")
    /\ UNCHANGED <<cfg_vars, mail_vars, sup_vars, child_vars, rcon_vars, chan_vars, listening,
                   gaps, owed, delivered>>

\* mutant: the retry loop runs while sync_attempts <= 5
BackupSyncOneMore(ok) ==
    /\ Polled
    /\ backup_pc = "sync"
    /\ sync_attempts <= MaxSyncAttempts
    /\ IF ok
         THEN /\ backup_pc' = "interval"
              /\ UNCHANGED <<sync_attempts, sync_err, backup_log>>
         ELSE /\ sync_attempts' = sync_attempts + 1
              /\ sync_err' = TRUE
              /\ IF sync_attempts' <= MaxSyncAttempts
                   THEN UNCHANGED <<backup_pc, backup_log>>
                   ELSE BackupFails("rclone_sync")
    /\ steps' = Append(steps, "Sync")
    /\ UNCHANGED <<cfg_vars, mail_vars, sup_vars, child_vars, rcon_vars, chan_vars, listening,
                   gaps, owed, delivered>>

\* backup.rs:204-222  one Rclone::sync of the retry loop, and what follows the loop
BackupSync(ok) ==
    /\ Polled
    /\ backup_pc = "sync"
    /\ sync_attempts < MaxSyncAttempts
    /\ IF ok
         THEN /\ backup_pc' = "interval"
              /\ UNCHANGED <<sync_attempts, sync_err, backup_log>>
         ELSE /\ sync_attempts' = sync_attempts + 1
              /\ sync_err' = TRUE
              /\ IF sync_attempts' < MaxSyncAttempts
                   THEN UNCHANGED <<backup_pc, backup_log>>
                   ELSE IF sync_attempts' >= MaxSyncAttempts
                          THEN BackupFails("rclone_sync")
                          ELSE backup_pc' = "interval" /\ UNCHANGED backup_log
    /\ steps' = Append(steps, "Sync")
    /\ UNCHANGED <<cfg_vars, mail_vars, sup_vars, child_vars, rcon_vars, chan_vars, listening,
                   gaps, owed, delivered>>

\* ---------------------------------------------------------- incident mailer

\* mutant: only the first report of the batch decides
IsFinalFirstOnly(batch) == batch # <<>> /\ batch[1].final

\* is_final (mail.rs:71)
IsFinal(batch) == \E i \in 1..Len(batch) : batch[i].final

\* the mailer has returned: Ok(()) after a final digest, or the error of a
\* closed queue
MailEnded == mail_pc \in {"done", "failed"}

\* an Incident Report is handed to the queue while the mailer holds its receiver.
\* The report carries the batch being collected when it arrives during the 30
\* second sleep (0 otherwise) and the number of digests composed so far.
ReportArrives(final) ==
    /\ reported < MaxReports
    /\ ~mail_closed
    /\ ~MailEnded
    /\ reported' = reported + 1
    /\ mail_chan' = Append(mail_chan,
                           [id |-> reported + 1, final |-> final,
                            window |-> IF mail_pc = "sleep" THEN Len(digests) + 1 ELSE 0,
                            after |-> Len(digests)])
    /\ UNCHANGED <<server_vars, mail_pc, mail_requests, attempts, digests, marks,
                   mail_closed>>

\* the sender side of the queue is dropped
SenderCloses ==
    /\ ~mail_closed
    /\ mail_closed' = TRUE
    /\ UNCHANGED <<server_vars, mail_pc, mail_chan, mail_requests, attempts, reported,
                   digests, marks>>

\* mail.rs:50-51  clear the batch and wait for the first report; recv fails on a
\* closed, empty queue and `?` returns the error
MailRecv ==
    /\ mail_pc = "recv"
    /\ IF mail_chan # <<>>
         THEN /\ mail_requests' = <<Head(mail_chan)>>
              /\ mail_chan' = Tail(mail_chan)
              /\ mail_pc' = "sleep"
         ELSE /\ mail_closed
              /\ mail_requests' = <<>>
              /\ mail_pc' = "failed"
              /\ UNCHANGED mail_chan
    /\ UNCHANGED <<server_vars, attempts, reported, digests, marks, mail_closed>>

\* mail.rs:54  the 30 second sleep ends
MailSleep ==
    /\ mail_pc = "sleep"
    /\ mail_pc' = "try"
    /\ UNCHANGED <<server_vars, mail_chan, mail_requests, attempts, reported, digests,
                   marks, mail_closed>>

\* mutant: the batch is closed when the sleep ends, without reading the queue
MailTrySkipsQueue ==
    /\ mail_pc = "try"
    /\ mail_pc' = "compose"
    /\ UNCHANGED <<server_vars, mail_chan, mail_requests, attempts, reported, digests,
                   marks, mail_closed>>

\* mail.rs:56-60  try_recv after the sleep: a report extends the batch, an empty
\* queue closes it, a closed and empty queue is an error that start returns
MailTry ==
    /\ mail_pc = "try"
    /\ IF mail_chan # <<>>
         THEN /\ mail_requests' = Append(mail_requests, Head(mail_chan))
              /\ mail_chan' = Tail(mail_chan)
              /\ mail_pc' = "drain"
         ELSE /\ mail_pc' = IF mail_closed THEN "failed" ELSE "compose"
              /\ UNCHANGED <<mail_chan, mail_requests>>
    /\ UNCHANGED <<server_vars, attempts, reported, digests, marks, mail_closed>>

\* mutant: the drained batch is composed without a further sleep
MailDrainComposes ==
    /\ mail_pc = "drain"
    /\ IF mail_chan # <<>>
         THEN /\ mail_requests' = Append(mail_requests, Head(mail_chan))
              /\ mail_chan' = Tail(mail_chan)
              /\ UNCHANGED mail_pc
         ELSE /\ mail_pc' = IF mail_closed THEN "failed" ELSE "compose"
              /\ UNCHANGED <<mail_chan, mail_requests>>
    /\ UNCHANGED <<server_vars, attempts, reported, digests, marks, mail_closed>>

\* mail.rs:62-68  drain the queue, then sleep again
MailDrain ==
    /\ mail_pc = "drain"
    /\ IF mail_chan # <<>>
         THEN /\ mail_requests' = Append(mail_requests, Head(mail_chan))
              /\ mail_chan' = Tail(mail_chan)
              /\ UNCHANGED mail_pc
         ELSE /\ mail_pc' = IF mail_closed THEN "failed" ELSE "sleep"
              /\ UNCHANGED <<mail_chan, mail_requests>>
    /\ UNCHANGED <<server_vars, attempts, reported, digests, marks, mail_closed>>

\* mail.rs:71-109  compose the digest of the batch: the urgent subject and the
\* closing notice follow is_final
MailCompose ==
    /\ mail_pc = "compose"
    /\ digests' = Append(digests, mail_requests)
    /\ marks' = Append(marks, [urgent |-> IsFinal(mail_requests),
                               closing |-> IsFinal(mail_requests)])
    /\ attempts' = 0
    /\ mail_pc' = "send"
    /\ UNCHANGED <<server_vars, mail_chan, mail_requests, reported, mail_closed>>

\* mutant: the mailer waits for the next report after every digest
MailAfterSendLoops == "recv"

\* mail.rs:126-128  after the send loop: a final batch ends the mailer
MailAfterSend == IF IsFinal(mail_requests) THEN "done" ELSE "recv"

\* mail.rs:110-124  one send of the digest
MailSend(ok) ==
    /\ mail_pc = "send"
    /\ IF ok
         THEN /\ mail_pc' = MailAfterSend
              /\ UNCHANGED attempts
         ELSE /\ attempts' = attempts + 1
              /\ mail_pc' = IF attempts' > MaxMailRetries THEN MailAfterSend ELSE "send"
    /\ UNCHANGED <<server_vars, mail_chan, mail_requests, reported, digests, marks,
                   mail_closed>>

\* ----------------------------------------------------------- specifications

\* the configurations explored (config.rs:94-105, 11-21)
Config(r, b, p, s, f, y) ==
    [restart |-> r, backups |-> b, paths |-> p, silent |-> s, flush |-> f,
     rclone |-> y]

\* server.rs:35-36  the state when ServerManager::start enters its loop
InitWith(c) ==
    /\ auto_restart = c.restart
    /\ backups = c.backups
    /\ paths_ok = c.paths
    /\ silent = c.silent
    /\ flush_on_save = c.flush
    /\ rclone_path = c.rclone
    /\ sup_pc = "spawn"
    /\ recent_incidents = 0
    /\ since_last_incident = 0
    /\ outcome = "none"
    /\ sup_break = FALSE
    /\ sup_result = None
    /\ child = "none"
    /\ sd_pc = "idle"
    /\ sigints = 0
    /\ sigkills = 0
    /\ shutdowns = 0
    /\ rcon_pc = "idle"
    /\ rcon_recent_incidents = 0
    /\ rcon_since_last_incident = 0
    /\ first_attempt = TRUE
    /\ first_attempt_attempts = 0
    /\ pending_msg = None
    /\ cmd = None
    /\ err_cmd = None
    /\ rcon_log = None
    /\ contacted = FALSE
    /\ cmd_chan = <<>>
    /\ back_chan = 0
    /\ backup_pc = "idle"
    /\ sync_attempts = 0
    /\ sync_err = FALSE
    /\ backup_log = None
    /\ listening = FALSE
    /\ gaps = <<>>
    /\ owed = None
    /\ delivered = <<>>
    /\ steps = <<>>
    /\ mail_pc = "recv"
    /\ mail_chan = <<>>
    /\ mail_requests = <<>>
    /\ attempts = 0
    /\ reported = 0
    /\ digests = <<>>
    /\ marks = <<>>
    /\ mail_closed = FALSE

\* the steps of the Supervisor, of its Process Handle and of the server process
SupervisorStep ==
    \/ \E ok \in BOOLEAN : SupSpawn(ok)
    \/ SelectExit
    \/ SelectRcon
    \/ SelectBackup
    \/ SupExited /\ UNCHANGED gaps
    \/ SupSleep
    \/ SdInterrupt
    \/ SdExited
    \/ SdTimeout
    \/ SdKilled
    \/ ProcExit
    \/ ServerListens

\* the steps of the Backup Scheduler
BackupStep ==
    \/ BackupStart
    \/ BackupInterval
    \/ BackupBroadcastStart
    \/ BackupSaveOff
    \/ BackupSaveAll
    \/ BackupSendAwait
    \/ BackupAck
    \/ BackupAckTimeout
    \/ BackupGrace
    \/ \E ok \in BOOLEAN : BackupDuplicity(ok)
    \/ BackupSaveOn
    \/ BackupBroadcastDone
    \/ \E ok \in BOOLEAN : BackupCleanup(ok)
    \/ \E ok \in BOOLEAN : BackupSync(ok)

\* Spec: the Supervisor with both tasks, over several process lifetimes, with a
\* console connection that, once made, forwards every command
SupConfigs ==
    { Config(TRUE, FALSE, TRUE, FALSE, TRUE, FALSE),
      Config(TRUE, TRUE, FALSE, FALSE, TRUE, FALSE),
      Config(FALSE, TRUE, TRUE, FALSE, TRUE, TRUE),
      Config(FALSE, TRUE, TRUE, TRUE, FALSE, FALSE) }

Init == \E c \in SupConfigs : InitWith(c)

Next ==
    \/ SupervisorStep
    \/ \E res \in {"Ok", "Io", "Other"} : RconConnect(res)
    \/ RconRecv
    \/ RconSend(TRUE)
    \/ RconSleep1
    \/ RconSleep10
    \/ BackupStep

Spec == Init /\ [][Next]_vars

\* the process exits once it was sent SIGKILL
ProcKilled == sigkills > 0 /\ ProcExit

\* FairSpec: the steps of emergency_shutdown are taken when they can be (its
\* awaits complete, its 20 second timer fires) and a killed process exits
FairSpec ==
    /\ Spec
    /\ WF_vars(SdInterrupt)
    /\ WF_vars(SdExited)
    /\ WF_vars(SdTimeout)
    /\ WF_vars(SdKilled)
    /\ WF_vars(ProcKilled)

\* FairBackup: the timed wait for the acknowledgment ends, with the
\* acknowledgment or with its 2 minute timer (backup.rs:118)
FairBackup == Spec /\ WF_vars(BackupAck \/ BackupAckTimeout)

\* SpecRcon: as Spec, with a connection that can fail while it forwards a
\* command and a clock that advances by the Session Manager's quiet window
NextRcon ==
    \/ SupervisorStep
    \/ \E res \in {"Ok", "Io", "Other"} : RconConnect(res)
    \/ \E ok \in BOOLEAN : RconPending(ok)
    \/ RconRecv
    \/ \E ok \in BOOLEAN : RconSend(ok)
    \/ RconSleep1
    \/ RconSleep10
    \/ BackupStep
    \/ Tick(RconQuietWindow)

SpecRcon == Init /\ [][NextRcon]_vars

\* SpecMail: the Incident Mailer and the reports that reach its queue
NextMail ==
    \/ \E final \in BOOLEAN : ReportArrives(final)
    \/ SenderCloses
    \/ MailRecv
    \/ MailSleep
    \/ MailTry
    \/ MailDrain
    \/ MailCompose
    \/ \E ok \in BOOLEAN : MailSend(ok)

SpecMail == Init /\ [][NextMail]_vars

\* SpecEsc: the Supervisor's escalation counter over a history of incidents; the
\* clock advances by one quiet window, the tasks are slower than the process
\* except for a Backup Scheduler that fails on its paths
EscConfigs ==
    { Config(TRUE, FALSE, TRUE, FALSE, TRUE, FALSE),
      Config(TRUE, TRUE, FALSE, FALSE, TRUE, FALSE) }

InitEsc == \E c \in EscConfigs : InitWith(c)

\* SupExited, recording the gap since the last recorded incident
SupExitedRecorded ==
    /\ SupExited
    /\ gaps' = IF auto_restart THEN Append(gaps, since_last_incident) ELSE gaps

NextEsc ==
    \/ Len(gaps) < MaxHistory /\ \E ok \in BOOLEAN : SupSpawn(ok)
    \/ SelectExit
    \/ SelectBackup
    \/ SupExitedRecorded
    \/ SupSleep
    \/ SdInterrupt
    \/ SdExited
    \/ SdTimeout
    \/ SdKilled
    \/ ProcExit
    \/ BackupStart
    \/ Tick(SupQuietWindow)

SpecEsc == InitEsc /\ [][NextEsc]_vars

\* ------------------------------------------------------------------ claims

\* the incident was the n-th of a run of incidents each at most a quiet window
\* after the one before it, and the run cannot be extended backwards
IsRun(g, n, window) ==
    /\ \A i \in (Len(g) - n + 2)..Len(g) : g[i] <= window
    /\ n = Len(g) \/ g[Len(g) - n + 1] > window

Streak(g, window) == CHOOSE n \in 1..Len(g) : IsRun(g, n, window)

RECURSIVE SumSeq(_)
SumSeq(g) == IF g = <<>> THEN 0 ELSE Head(g) + SumSeq(Tail(g))

\* the Supervisor's counter returned Stop: it left its loop with auto-restart on
SupStopped == auto_restart /\ sup_break

\* C1: the Supervisor's Escalation Counter returns Stop iff the count after the
\* increment exceeds 5, never earlier; 6 incidents within a 5-minute span make
\* calls 1 to 5 return Continue and the 6th return Stop.
C1_StopIffOverThreshold ==
    auto_restart =>
      /\ SupStopped <=> recent_incidents > SupThreshold
      /\ SupStopped => Len(gaps) >= SupThreshold + 1
      /\ SumSeq(SubSeq(gaps, 2, Len(gaps))) <= 5 =>
            (SupStopped <=> Len(gaps) = 6)

C1_Witness ==
    /\ SupStopped
    /\ Len(gaps) = 6
    /\ SumSeq(SubSeq(gaps, 2, 6)) <= 5

\* C2: after N consecutive incidents whose gaps to the previous incident are all
\* at most the quiet window the count is N, and an incident whose gap is strictly
\* greater than the quiet window leaves the count at exactly 1.
C2_CountIsStreak ==
    (auto_restart /\ gaps # <<>>) =>
      /\ recent_incidents = Streak(gaps, SupQuietWindow)
      /\ gaps[Len(gaps)] > SupQuietWindow => recent_incidents = 1

C2_Witness ==
    /\ auto_restart
    /\ Len(gaps) = 5
    /\ gaps[2] <= SupQuietWindow
    /\ gaps[3] > SupQuietWindow
    /\ gaps[4] = SupQuietWindow
    /\ gaps[5] <= SupQuietWindow
    /\ recent_incidents = 3

\* the Supervisor has released the Process Handle of the last process it spawned
HandleReleased == child # "none" /\ sup_pc \in {"spawn", "done"} /\ sd_pc = "idle"

\* C3: on every path by which the Supervisor releases the Process Handle the
\* shutdown sequence has run exactly once for that handle.
C3_ShutdownExactlyOnce == HandleReleased => shutdowns = 1

\* C4: the interrupt is sent first; a process that exits within the 20 seconds
\* is never sent the kill signal, one that does not is sent it exactly once, also
\* when shutdown runs again for the same handle.
C4_KillOnlyAfterTimeoutOnce ==
    [][/\ (sigkills' # sigkills /\ sup_pc # "spawn") =>
             /\ sigkills = 0 /\ sigkills' = 1
             /\ sigints >= 1
             /\ sd_pc = "wait" /\ child = "running"
       /\ (sd_pc = "wait" /\ sd_pc' # "wait") =>
             sigkills' = IF child = "exited" THEN sigkills ELSE 1
       /\ (sigints' # sigints /\ sup_pc # "spawn") => sigkills' = sigkills
      ]_vars

C4_Witness ==
    /\ shutdowns = 2
    /\ sigints = 2
    /\ sigkills = 1
    /\ sd_pc = "idle"

\* C5: every invocation of shutdown terminates, and when it returns the process
\* has exited (a process that is sent the kill signal exits).
C5_ShutdownTerminatesProcessGone ==
    /\ (sd_pc # "idle") ~> (sd_pc = "idle")
    /\ [][(sd_pc # "idle" /\ sd_pc' = "idle") => child' = "exited"]_vars

C5_Witness ==
    /\ sd_pc = "idle"
    /\ shutdowns = 1
    /\ sigkills = 1
    /\ child = "exited"
    /\ sup_pc = "exited"

\* C6: exactly one of process exit, Session Manager failure and Backup Scheduler
\* failure is taken as the deciding outcome of a lifetime, and once it is taken
\* neither task takes a further step in that lifetime.
C6_OneOutcomeThenNoTaskStep ==
    [][/\ (outcome # "none" /\ sup_pc # "spawn") =>
             UNCHANGED <<outcome, rcon_vars, backup_vars, chan_vars>>
       /\ (outcome = "none" /\ outcome' # "none") =>
             /\ sup_pc = "select"
             /\ outcome' = "exit" => child = "exited"
             /\ outcome' = "rcon" => rcon_pc = "done"
             /\ outcome' = "backup" => backup_pc = "done"
             /\ outcome' \in {"exit", "rcon", "backup"}
       /\ (sup_pc = "select" /\ sup_pc' # "select") => outcome' # "none"
      ]_vars

C6_Witness ==
    /\ outcome = "exit"
    /\ sup_pc = "drop"
    /\ rcon_pc = "send"
    /\ cmd_chan # <<>>
    /\ backup_pc = "send_await"

\* C7: when a task's terminal failure is the deciding outcome, the shutdown
\* sequence has completed, and the process is gone, before the Supervisor
\* consults its counter, waits for the restart or spawns again.
C7_ShutdownBeforeProceeding ==
    (outcome \in {"rcon", "backup"} /\ sup_pc \in {"exited", "sleep", "drop", "spawn"})
       => /\ child = "exited"
          /\ shutdowns >= 1
          /\ sigints >= 1
          /\ sup_pc # "drop" => sd_pc = "idle"

C7_Witness ==
    /\ outcome = "rcon"
    /\ sup_pc = "sleep"
    /\ sigkills = 1

\* a connection attempt of the polled Session Manager is refused: the server's
\* port is closed
Refused == Polled /\ rcon_pc = "connect" /\ ~listening /\ rcon_pc' # "connect"

\* C8 as stated: a connection refusal before any successful contact leaves the
\* Session Manager's count and last-incident time unchanged and leads to a retry
\* after the 10-second delay.
C8_RefusalBeforeContactTolerated ==
    [][(Refused /\ ~contacted) =>
          /\ rcon_recent_incidents' = rcon_recent_incidents
          /\ rcon_since_last_incident' = rcon_since_last_incident
          /\ rcon_pc' = "sleep10"
      ]_vars

\* C8 as amended: a connection refusal before any successful contact and before
\* any connection attempt has failed with another error leaves the count and the
\* last-incident time unchanged; each of the first 60 such refusals leads to a
\* retry after the 10-second delay and the 61st ends the Session Manager.
C8_RefusalOnFirstAttemptsTolerated ==
    [][(Refused /\ ~contacted /\ first_attempt) =>
          /\ rcon_recent_incidents' = rcon_recent_incidents
          /\ rcon_since_last_incident' = rcon_since_last_incident
          /\ rcon_pc' = IF first_attempt_attempts < FirstContactRetries
                          THEN "sleep10" ELSE "done"
      ]_vars

C8_Witness ==
    /\ rcon_pc = "sleep10"
    /\ ~contacted
    /\ first_attempt
    /\ first_attempt_attempts = 2
    /\ rcon_since_last_incident = RconQuietWindow

\* C9: a Session Manager whose connections are all refused makes the initial
\* attempt and 60 tolerated retries, then terminates reporting that the server
\* took too long before first contact: no 62nd attempt and no earlier end.
C9_GivesUpAfterSixtyRetries ==
    /\ first_attempt_attempts <= FirstContactRetries + 1
    /\ rcon_log = "no_first_contact" <=>
          first_attempt_attempts = FirstContactRetries + 1
    /\ rcon_log = "no_first_contact" => (rcon_pc = "done" /\ ~contacted)
    /\ rcon_pc = "sleep10" => first_attempt_attempts \in 1..FirstContactRetries

C9_Witness ==
    /\ rcon_log = "no_first_contact"
    /\ rcon_pc = "done"
    /\ first_attempt_attempts = FirstContactRetries + 1
    /\ outcome = "rcon"

\* C10: every connection failure after the first successful contact and every
\* failure while forwarding a command increments the Session Manager's count
\* (reset first when the quiet window has passed); a count above 5 ends the
\* Session Manager, otherwise it waits 1 second and reconnects.
C10_FailureCountsAsIncident ==
    [][(/\ Polled
        /\ contacted
        /\ rcon_pc \in {"connect", "pending", "recv", "send"}
        /\ rcon_pc' \in {"sleep1", "done"}) =>
          LET n == (IF rcon_since_last_incident > RconQuietWindow
                      THEN 0 ELSE rcon_recent_incidents) + 1
          IN /\ rcon_recent_incidents' = n
             /\ rcon_pc' = IF n > RconThreshold THEN "done" ELSE "sleep1"
      ]_vars

\* C11: a command whose forwarding failed is the first command sent on the next
\* successful connection, whatever number of connection attempts fail in between:
\* the Session Manager never reads or forwards a queued command while the failed
\* command is still unforwarded.
C11_FailedCommandSentFirst ==
    rcon_pc \in {"recv", "send"} => owed = None

\* C12: when the redelivery of a remembered command fails, the command is
\* discarded, not remembered again, and the failure is counted as a new incident.
C12_RedeliveredAtMostOnce ==
    [][(Polled /\ rcon_pc = "pending" /\ rcon_pc' \in {"sleep1", "done"}) =>
          /\ err_cmd' = None
          /\ rcon_recent_incidents' =
                (IF rcon_since_last_incident > RconQuietWindow
                   THEN 0 ELSE rcon_recent_incidents) + 1
      ]_vars

Range(q) == {q[i] : i \in 1..Len(q)}

Count(q, x) == Cardinality({i \in 1..Len(q) : q[i] = x})

\* x occurs in q, and before every occurrence of y
Before(q, x, y) ==
    \E i \in 1..Len(q) : q[i] = x /\ \A j \in 1..Len(q) : q[j] = y => i < j

\* the full-save command of the configuration
SaveAllCmd == IF flush_on_save THEN "SaveAllFlush" ELSE "SaveAll"

\* C13: when the Backup Scheduler has observed the acknowledgment of an
\* iteration, the disable-autosave and full-save commands of that iteration have
\* been forwarded successfully to the server.
C13_AckImpliesSavesForwarded ==
    "Ack" \in Range(steps) =>
        {"SaveOff", SaveAllCmd} \subseteq Range(delivered)

\* C14: in an iteration that reaches the backup tool, disable-autosave is sent
\* before full-save, full-save before the handshake, and the handshake is
\* acknowledged before the backup tool is invoked.
C14_StepOrder ==
    "Duplicity" \in Range(steps) =>
        /\ Before(steps, "SaveOff", SaveAllCmd)
        /\ Before(steps, SaveAllCmd, "Await")
        /\ Before(steps, "Await", "Ack")
        /\ Before(steps, "Ack", "Duplicity")
        /\ \A x \in {"SaveOff", SaveAllCmd, "Await", "Ack", "Duplicity"} :
              Count(steps, x) = 1

C14_Witness ==
    /\ "Duplicity" \in Range(steps)
    /\ "Grace" \in Range(steps)
    /\ backup_pc = "cleanup"
    /\ owed # None

\* the steps of a successful iteration with flush-on-save and without silent
FlushLoudSteps ==
    <<"BroadcastStart", "SaveOff", "SaveAllFlush", "Await", "Ack", "Duplicity",
      "SaveOn", "BroadcastDone", "Cleanup">>

\* C15: with flush-on-save and without silent, a successful iteration issues
\* start broadcast, disable-autosave, full-save(flush), handshake, backup tool,
\* enable-autosave, completion broadcast, cleanup, in that order, with no grace
\* sleep and no other step in between (the sync attempts follow the cleanup).
C15_FlushLoudSequence ==
    (backups /\ flush_on_save /\ ~silent) =>
        /\ \A i \in 1..Len(steps) :
              steps[i] = IF i <= Len(FlushLoudSteps) THEN FlushLoudSteps[i] ELSE "Sync"
        /\ backup_pc \in {"sync", "interval"} /\ steps # <<>> =>
              Len(steps) >= Len(FlushLoudSteps)

C15_Witness ==
    /\ flush_on_save
    /\ ~silent
    /\ backup_pc = "interval"
    /\ Len(steps) >= Len(FlushLoudSteps)
    /\ SubSeq(steps, 1, Len(FlushLoudSteps)) = FlushLoudSteps
    /\ delivered # <<>>

\* C16: a failing or timed-out step ends the scheduler with a failure log; after
\* that no step of the scheduler runs, nothing is enqueued and no iteration
\* starts until the Supervisor spawns the next process.
C16_FailureShortCircuits ==
    [][/\ (backup_pc = "done" /\ sup_pc # "spawn") =>
             /\ UNCHANGED <<backup_pc, backup_log, steps, sync_attempts>>
             /\ Len(cmd_chan') <= Len(cmd_chan)
       /\ (backup_log' # backup_log /\ sup_pc # "spawn") =>
             /\ backup_pc' = "done"
             /\ backup_log' # None
             /\ cmd_chan' = cmd_chan
             /\ \/ steps' = steps
                \/ \E x \in {"Duplicity", "Cleanup", "Sync"} : steps' = Append(steps, x)
       /\ (backup_pc # "done" /\ backup_pc' = "done") => backup_log' # None
      ]_vars

C16_Witness ==
    /\ backup_pc = "done"
    /\ backup_log = "duplicity_backup"
    /\ outcome = "backup"
    /\ sup_pc = "done"
    /\ Range(steps) \cap {"SaveOn", "Cleanup", "Sync"} = {}

\* C17: without a Backup Configuration the Backup Scheduler never completes and
\* never fails: it is never the deciding outcome and it enqueues no command.
C17_NoConfigNeverEnds ==
    ~backups =>
        /\ backup_pc \in {"idle", "start", "pending"}
        /\ backup_log = None
        /\ outcome # "backup"
        /\ cmd_chan = <<>>
        /\ steps = <<>>

C17_Witness ==
    /\ ~backups
    /\ backup_pc = "pending"
    /\ outcome = "rcon"
    /\ sup_pc = "sleep"

\* C18: the wait for the acknowledgment ends, with the acknowledgment or with
\* the failure of its timeout, and so does every enqueue: a polled scheduler
\* never stays in a wait, and a timeout ends it with a failure log.
C18_WaitsBounded ==
    /\ (Polled /\ backup_pc = "recv_ack") ~> (~Polled \/ backup_pc # "recv_ack")
    /\ [][(backup_pc = "recv_ack" /\ backup_pc' # "recv_ack" /\ sup_pc # "spawn") =>
             \/ back_chan > 0 /\ backup_pc' \in {"grace", "duplicity"}
             \/ back_chan = 0 /\ backup_pc' = "done" /\ backup_log' = "timeout_ack"
         ]_vars
    /\ [][(backup_pc \in {"broadcast_start", "save_off", "save_all", "send_await",
                           "save_on", "broadcast_done"}
           /\ backup_pc' # backup_pc /\ sup_pc # "spawn") =>
             \/ Len(cmd_chan) < CmdCapacity /\ Len(cmd_chan') = Len(cmd_chan) + 1
             \/ Len(cmd_chan) = CmdCapacity /\ backup_pc' = "done"
                   /\ backup_log' # None
         ]_vars

C18_Witness ==
    /\ backup_pc = "done"
    /\ backup_log = "timeout_ack"
    /\ steps[Len(steps)] = "Await"
    /\ outcome = "backup"

SyncCalls == Count(steps, "Sync")

\* C19: with a remote-sync target the sync collaborator is invoked at most 5
\* times per iteration; 5 failed attempts end the scheduler with a failure, and a
\* success after 1 to 4 failures lets it continue to the next iteration.
C19_SyncAttempts ==
    /\ SyncCalls <= MaxSyncAttempts
    /\ SyncCalls > 0 => rclone_path
    /\ backup_log = "rclone_sync" <=>
          (backup_pc = "done" /\ sync_attempts = MaxSyncAttempts
             /\ SyncCalls = MaxSyncAttempts)
    /\ backup_pc = "sync" => sync_attempts < MaxSyncAttempts /\ SyncCalls = sync_attempts
    /\ (backup_pc = "interval" /\ SyncCalls > 0) =>
          /\ sync_attempts < MaxSyncAttempts
          /\ SyncCalls = sync_attempts + 1
          /\ backup_log = None

C19_Witness ==
    /\ backup_pc = "interval"
    /\ sync_attempts = MaxSyncAttempts - 1
    /\ sync_err
    /\ SyncCalls = MaxSyncAttempts
    /\ backup_log = None

\* C20: a report that arrives during the 30 second collection sleep of a batch
\* goes into the digest of that batch, and a report that arrives after a digest
\* has been composed goes into a later digest.
C20_WindowBatching ==
    \A d \in 1..Len(digests) : \A i \in 1..Len(digests[d]) :
        LET r == digests[d][i]
        IN /\ r.window # 0 => d = r.window
           /\ d > r.after

C20_Witness ==
    /\ Len(digests) = 2
    /\ Len(digests[1]) = 2
    /\ digests[1][2].window = 1
    /\ digests[2][1].after = 1
    /\ digests[2][1].window = 0

\* C21: the send loop of a digest whose batch holds a final report is followed by
\* the end of the mailer, which then takes no further report from the queue and
\* composes nothing more; the send loop of a digest without a final report is
\* followed by the wait for the next report.  The mailer ends with Ok in no
\* other way.
C21_FinalDigestEndsMailer ==
    [][/\ (mail_pc = "send" /\ mail_pc' # "send") =>
              mail_pc' = (IF \E i \in 1..Len(mail_requests) : mail_requests[i].final
                            THEN "done" ELSE "recv")
       /\ mail_pc = "done" =>
              /\ mail_pc' = "done"
              /\ mail_chan' = mail_chan
              /\ mail_requests' = mail_requests
              /\ digests' = digests
       /\ (mail_pc # "done" /\ mail_pc' = "done") => mail_pc = "send"]_vars

C21_Witness ==
    /\ mail_pc = "done"
    /\ Len(digests) = 2
    /\ \A i \in 1..Len(digests[1]) : ~digests[1][i].final
    /\ mail_chan # <<>>

\* C22: the mailer is about to send a digest only while fewer than 5 sends of
\* that digest have failed, so that a digest is sent at most 5 times.
C22_AtMostFiveSends == mail_pc = "send" => attempts < 5

\* C23: the subject of a digest is urgent, and its body ends with the closing
\* notice, exactly when some report of its batch is final, at any position.
C23_UrgentIffAnyFinal ==
    /\ Len(marks) = Len(digests)
    /\ \A d \in 1..Len(digests) :
           LET anyFinal == \E i \in 1..Len(digests[d]) : digests[d][i].final
           IN /\ marks[d].urgent = anyFinal
              /\ marks[d].closing = anyFinal

C23_Witness ==
    /\ Len(digests) = 2
    /\ ~marks[1].urgent
    /\ Len(digests[2]) >= 2
    /\ ~digests[2][1].final
    /\ digests[2][2].final
    /\ marks[2].urgent /\ marks[2].closing

\* C28 (as stated): a batch has one collection window, so the mailer sleeps only
\* while the batch holds nothing but its first report.
C28_SingleWindow == mail_pc = "sleep" => Len(mail_requests) = 1

\* C28 (amended): the sleep is followed by one non-blocking read of the queue;
\* a report found there is added to the batch, the queue is drained without
\* blocking, and the mailer never goes from the drain to composing: it composes
\* only when the read at the end of a sleep finds the queue empty.
C28_WindowRepeatsUntilQuiet ==
    [][/\ (mail_pc = "sleep" /\ mail_pc' # "sleep") => mail_pc' = "try"
       /\ (mail_pc = "try" /\ mail_pc' # "try" /\ mail_chan # <<>>) =>
              /\ mail_pc' = "drain"
              /\ mail_requests' = Append(mail_requests, Head(mail_chan))
       /\ mail_pc = "drain" => mail_pc' \in {"drain", "sleep", "failed"}
       /\ (mail_pc # "compose" /\ mail_pc' = "compose") =>
              /\ mail_pc = "try"
              /\ mail_chan = <<>>
              /\ mail_requests' = mail_requests]_vars

C28_Witness ==
    /\ mail_pc = "sleep"
    /\ Len(mail_requests) >= 2
    /\ mail_chan # <<>>
    /\ digests = <<>>

\* C29: once the mailer has returned, every report of the batch it had taken
\* from the queue is in a digest it composed and tried to send.
C29_TakenReportsAreSent ==
    MailEnded =>
        \A i \in 1..Len(mail_requests) :
            \E d \in 1..Len(digests) : \E j \in 1..Len(digests[d]) :
                digests[d][j] = mail_requests[i]

\* C27: every invocation of the backup tool comes after the acknowledgment of
\* its iteration, with the 2 minute grace sleep between the two exactly when
\* flush-on-save is false, and the scheduler is in that sleep only when
\* flush-on-save is false.
C27_GraceIffNotFlushed ==
    /\ backup_pc = "grace" => ~flush_on_save
    /\ \A i \in 1..Len(steps) :
           steps[i] = "Duplicity" =>
               /\ i > 1
               /\ steps[i - 1] = "Grace" <=> ~flush_on_save
               /\ IF steps[i - 1] = "Grace"
                    THEN i > 2 /\ steps[i - 2] = "Ack"
                    ELSE steps[i - 1] = "Ack"

C27_Witness ==
    /\ ~flush_on_save
    /\ backup_pc = "save_on"
    /\ Len(steps) >= 3
    /\ steps[Len(steps)] = "Duplicity"
    /\ steps[Len(steps) - 1] = "Grace"
    /\ steps[Len(steps) - 2] = "Ack"

\* C30: the Supervisor reaches the spawn of a process, and spawns it, only when
\* no process is alive: none was spawned yet or the previous one has exited.
C30_SpawnOnlyAfterExit ==
    [][/\ sup_pc' = "spawn" => child' \in {"none", "exited"}
       /\ (child' = "running" /\ sup_pc = "spawn" /\ sup_pc' = "select") =>
              child \in {"none", "exited"}
       /\ (child # "running" /\ child' = "running") => sup_pc = "spawn"]_vars

C30_Witness ==
    /\ sup_pc = "select"
    /\ child = "running"
    /\ recent_incidents >= 2
    /\ sigkills = 0

\* C25 (as stated): once a process has been spawned, the Supervisor has stopped
\* only with auto-restart disabled or with its count above the threshold.
C25_StopsOnlyByDecision ==
    (sup_pc = "done" /\ child # "none") =>
        (~auto_restart \/ recent_incidents > SupThreshold)

\* C25 (amended): after a process lifetime the Supervisor leaves the loop exactly
\* when auto-restart is disabled or the updated count exceeds the threshold, and
\* otherwise sleeps and goes on to the next spawn; a spawn that succeeds comes
\* with a fresh queue, Session Manager and Backup Scheduler, and one that fails
\* ends the Supervisor with the error.  A stopped Supervisor stays stopped and
\* spawns nothing.
C25_RestartOrStop ==
    [][/\ (sup_pc = "exited" /\ sup_pc' # "exited") =>
              IF ~auto_restart \/ recent_incidents' > SupThreshold
                THEN sup_pc' = "drop" /\ sup_break'
                ELSE sup_pc' = "sleep"
       /\ (sup_pc = "sleep" /\ sup_pc' # "sleep") => (sup_pc' = "drop" /\ ~sup_break')
       /\ (sup_pc = "drop" /\ sup_pc' # "drop") =>
              IF sup_break
                THEN sup_pc' = "done" /\ sup_result' = "Ok"
                ELSE sup_pc' = "spawn"
       /\ (sup_pc = "spawn" /\ sup_pc' # "spawn") =>
              \/ /\ sup_pc' = "select"
                 /\ child' = "running"
                 /\ cmd_chan' = <<>> /\ back_chan' = 0
                 /\ rcon_pc' = "connect" /\ first_attempt' /\ ~contacted'
                 /\ rcon_recent_incidents' = 0 /\ first_attempt_attempts' = 0
                 /\ backup_pc' = "start" /\ sync_attempts' = 0
              \/ /\ sup_pc' = "done"
                 /\ sup_result' = "Err"
                 /\ child' = child
       /\ sup_pc = "done" => (sup_pc' = "done" /\ child' # "running")]_vars

C25_Witness ==
    /\ sup_pc = "done"
    /\ sup_result = "Err"
    /\ auto_restart
    /\ child = "exited"
    /\ recent_incidents = 1

C24_FailureIsReported ==
    [][(sup_pc = "exited" /\ sup_pc' # "exited" /\ outcome \in {"rcon", "backup"}) =>
           /\ Len(mail_chan') = Len(mail_chan) + 1
           /\ mail_chan'[Len(mail_chan')].final = (sup_pc' = "drop")]_vars

\* C31: once the Supervisor has observed the exit of the process (the exit won
\* the select, or an emergency shutdown has returned) and until it spawns the
\* next one, no interrupt and no kill signal is sent.
C31_NoSignalAfterObservedExit ==
    [][(sup_pc \in {"exited", "sleep", "drop"}) =>
           (sigints' = sigints /\ sigkills' = sigkills)]_vars

\* the logs of an enqueue that timed out on a full command queue
EnqueueTimeouts ==
    {"timeout_broadcast_start", "timeout_save_off", "timeout_save_all",
     "timeout_send_await", "timeout_save_on", "timeout_broadcast_done"}

\* C32: the command queue never holds more than 6 commands and the handshake
\* channel never more than 1 signal: the queue stays below its capacity of 32
\* and the Backup Scheduler never ends on an enqueue that timed out.
C32_QueuesStayShort ==
    /\ Len(cmd_chan) <= 6
    /\ Len(cmd_chan) < CmdCapacity
    /\ back_chan <= 1
    /\ backup_log \notin EnqueueTimeouts

C32_Witness ==
    /\ Len(cmd_chan) = 6
    /\ cmd_chan[1] = "SaveOn"
    /\ cmd_chan[6] = "Await"
    /\ backup_pc = "recv_ack"

\* the steps of an iteration between disable-autosave and enable-autosave
AutosaveOff == {"save_all", "send_await", "recv_ack", "grace", "duplicity", "save_on"}

\* C33 (as stated): once the Supervisor has left the select of a lifetime, after
\* which the scheduler takes no step, a scheduler that had queued
\* disable-autosave has queued enable-autosave or has ended with a failure log.
C33_SaveOnOrFailure ==
    (sup_pc # "select" /\ "SaveOff" \in Range(steps) /\ "SaveOn" \notin Range(steps)) =>
        (backup_pc = "done" /\ backup_log # None)

\* C33 (amended): a scheduler that has queued disable-autosave in its iteration
\* and not yet enable-autosave is still between the two, where the end of the
\* lifetime may leave it, or has ended with a failure log; enable-autosave is
\* queued once, after disable-autosave; and the scheduler starts its next
\* iteration only with enable-autosave queued for the disable-autosave of the
\* iteration before.
C33_AutosaveReenabled ==
    [][LET off == "SaveOff" \in Range(steps)
           on == "SaveOn" \in Range(steps)
       IN /\ (off /\ ~on) => backup_pc \in AutosaveOff \cup {"done"}
          /\ (off /\ ~on /\ backup_pc = "done") => backup_log # None
          /\ on => (Before(steps, "SaveOff", "SaveOn") /\ Count(steps, "SaveOn") = 1)
          /\ (sup_pc = "select" /\ sup_pc' = "select" /\ backup_pc = "interval"
                /\ backup_pc' # "interval") => (off => on)]_vars

C33_Witness ==
    /\ sup_pc = "done"
    /\ outcome = "exit"
    /\ backup_pc = "recv_ack"
    /\ "SaveOff" \in Range(steps)
    /\ "SaveOn" \notin Range(steps)

\* q is p with some of its elements left out
RECURSIVE IsSubseq(_, _)
IsSubseq(q, p) ==
    IF q = <<>> THEN TRUE
    ELSE IF p = <<>> THEN FALSE
    ELSE IF Head(q) = Head(p) THEN IsSubseq(Tail(q), Tail(p))
    ELSE IsSubseq(q, Tail(p))

\* the order in which the Backup Scheduler enqueues around one iteration: what
\* the iteration before left in the queue, then the commands of the iteration
EnqueueOrder ==
    <<"SaveOn", "BroadcastDone", "BroadcastStart", "SaveOff", SaveAllCmd, "Await",
      "SaveOn", "BroadcastDone">>

\* C34: the commands forwarded since the start of a scheduler iteration are in
\* the order of their enqueueing, whatever failed or was reconnected in between;
\* a command is taken from the queue at its head, one at a time (only when the
\* Session Manager holds no other command), and the command forwarded is the
\* one it holds.
C34_ForwardedInQueueOrder ==
    [][/\ IsSubseq(delivered, EnqueueOrder)
       /\ (Len(cmd_chan') < Len(cmd_chan) /\ sup_pc' = "select") =>
              /\ rcon_pc = "recv"
              /\ cmd = None
              /\ cmd' = Head(cmd_chan)
              /\ cmd_chan' = Tail(cmd_chan)
       /\ (Len(delivered') > Len(delivered)) =>
              \/ rcon_pc = "send" /\ delivered' = Append(delivered, cmd)
              \/ rcon_pc = "pending" /\ delivered' = Append(delivered, pending_msg)]_vars

C34_Witness ==
    /\ Len(delivered) >= 3
    /\ pending_msg = "SaveOff"
    /\ delivered[Len(delivered) - 1] = "SaveOff"
    /\ delivered[Len(delivered)] = SaveAllCmd
    /\ rcon_pc = "recv"
    /\ cmd_chan # <<>>

====
